---- MODULE Spec2Model ----
(***************************************************************************)
(* Keyframe timelines of the channel_viz Blender scripts.                  *)
(*                                                                         *)
(* The scripted emitters (animate_transaction, animate_ball), the physics  *)
(* emitter (create_hybrid_transaction), spawn_physics_ball and the scene   *)
(* builder create_channel_scene are modelled by the keyframes they insert, *)
(* in emission order.  Lengths are integers in hundredths of a Blender     *)
(* unit (0.15 is 15), frames are integers.  Python's 0-based loop index i  *)
(* is the 1-based index i + 1 here.                                        *)
(***************************************************************************)
EXTENDS Integers, Sequences, FiniteSets, TLC

VARIABLES
    args,   \* arguments the caller passes to the emitters
    scene,  \* the objects of the Blender scene, in creation order
    rng,    \* state of the module-global random stream (import random)
    pc,     \* position of the script: "lib" (functions called one by one),
            \* or "start", "writes", "reads", "done" inside create_channel_scene
            \* or "np_start", "np_writes", "np_reads", "np_done" inside
            \* create_scene of the no-physics script
    i,      \* loop index of the spawn loops of create_channel_scene
    frames, \* scene.frame_start and scene.frame_end
    runs    \* results of the finished runs of the script, oldest first

vars == <<args, scene, rng, pc, i, frames, runs>>

-----------------------------------------------------------------------------
(* Bounds of the model *)

\* longest waypoint list and longest wait_times / physics_frames list
MaxPath == 2
\* emitter calls in one library session
MaxEntities == 2
\* runs of the script that are compared
MaxRuns == 2

-----------------------------------------------------------------------------
(* Optional arguments: <<>> is None, <<x>> is the value x *)

None == <<>>
Some(x) == <<x>>

(* STRUCTURES: the 'pos' of every unit, in hundredths *)
STRUCTURES ==
    [wcache      |-> <<0, 150, 400>>,
     write_rs    |-> <<-350, 150, 0>>,
     read_rs     |-> <<350, 150, 0>>,
     dram        |-> <<0, 150, -500>>,
     read_return |-> <<700, 150, -500>>]

(* the waypoints a caller builds paths from *)
Points == {STRUCTURES.wcache, STRUCTURES.write_rs}

SeqsUpTo(S, lo, hi) == UNION {[1..n -> S] : n \in lo..hi}

Paths == SeqsUpTo(Points, 1, MaxPath)
(* dwell lists: shorter than, as long as and longer than the path *)
Dwells == {0, 20}
Times == SeqsUpTo(Dwells, 0, MaxPath)

(* start_frame / spawn_frame of a call *)
StartFrames == {0, 1}

(* states the stream of a fresh process can be in before it is seeded *)
UnseededStates == {0, 1}

-----------------------------------------------------------------------------
(* The random stream.  random.random() is a deterministic function of the  *)
(* generator state; the Mersenne Twister is abstracted by a full-period    *)
(* linear congruential generator over RngMod states.                       *)

RngMod == 64

(* the seeding left out: the stream stays as the process started it *)
random_seed_skipped(a) == rng

random_seed(a) == a % RngMod

random_next(r) == (5 * r + 3) % RngMod

(* random.uniform(a, b) = a + (b - a) * random(), random() = r / RngMod *)
uniform(a, b, r) == a + ((b - a) * r) \div RngMod

-----------------------------------------------------------------------------
(* Keyframes.  keyframe_insert(data_path, frame) records the current value *)
(* of the property; phase and stop name the statement that inserted it.    *)

Key(frame, data_path, value, phase, stop) ==
    [frame |-> frame, data_path |-> data_path, value |-> value,
     phase |-> phase, stop |-> stop]

(* location and scale keyed together on one frame *)
Pose(frame, location, scale, phase, stop) ==
    <<Key(frame, "location", location, phase, stop),
      Key(frame, "scale", scale, phase, stop)>>

base_scale == <<100, 100, 100>>

frames_per_move == 18
bounce_frames == 8
(* travel_frames = 20 *)
travel_frames_longer == 18 + 2
travel_frames == 18

(* int(bounce_frames * 0.04): the bounce offsets round down to 0 *)
int_tenths_rounds_to_zero(n, tenths) == (n * tenths) \div 100

(* int(bounce_frames * 0.4), int(bounce_frames * 0.6) *)
int_tenths(n, tenths) == (n * tenths) \div 10

(* is_last = (i == len(waypoints)): never true inside the loop *)
is_last_off_by_one(n, waypoints) == (n = Len(waypoints) + 1)

(* is_last = (i == len(waypoints) - 1) in animate_transaction *)
is_last(n, waypoints) == (n = Len(waypoints))

(* wait = wait_times[i] if i < len(wait_times) else 0 *)
wait_at(wait_times, n) == IF n <= Len(wait_times) THEN wait_times[n] ELSE 0

(* Each part of the loop body maps the clock and the keyframes so far,     *)
(* st = [f |-> current_frame, k |-> keys], to their values after the part. *)

(* arriving with the squash and the overshoot along z instead of y *)
arrive_squashing_along_z(st, pos, n) ==
    IF n # 1
    THEN LET f_stretch == st.f + int_tenths(bounce_frames, 4)
             f_settle == f_stretch + int_tenths(bounce_frames, 6)
         IN [f |-> f_settle,
             k |-> st.k
                   \o Pose(st.f, <<pos[1], pos[2], pos[3] - 15>>,
                           <<115, 115, 70>>, "squash", n)
                   \o Pose(f_stretch, <<pos[1], pos[2], pos[3] + 10>>,
                           <<85, 85, 125>>, "stretch", n)
                   \o Pose(f_settle, pos, base_scale, "settle", n)]
    ELSE [f |-> st.f, k |-> st.k \o Pose(st.f, pos, base_scale, "first", n)]

(* arriving where the settle keyframe keeps the stretched pose *)
arrive_without_settling(st, pos, n) ==
    IF n # 1
    THEN LET f_stretch == st.f + int_tenths(bounce_frames, 4)
             f_settle == f_stretch + int_tenths(bounce_frames, 6)
         IN [f |-> f_settle,
             k |-> st.k
                   \o Pose(st.f, <<pos[1], pos[2] - 15, pos[3]>>,
                           <<115, 70, 115>>, "squash", n)
                   \o Pose(f_stretch, <<pos[1], pos[2] + 10, pos[3]>>,
                           <<85, 125, 85>>, "stretch", n)
                   \o Pose(f_settle, <<pos[1], pos[2] + 10, pos[3]>>,
                           <<85, 125, 85>>, "settle", n)]
    ELSE [f |-> st.f, k |-> st.k \o Pose(st.f, pos, base_scale, "first", n)]

(* arriving at waypoint n: squash, stretch, settle; the first waypoint is  *)
(* only set                                                                *)
arrive(st, pos, n) ==
    IF n # 1
    THEN LET f_stretch == st.f + int_tenths(bounce_frames, 4)
             f_settle == f_stretch + int_tenths(bounce_frames, 6)
         IN [f |-> f_settle,
             k |-> st.k
                   \o Pose(st.f, <<pos[1], pos[2] - 15, pos[3]>>,
                           <<115, 70, 115>>, "squash", n)
                   \o Pose(f_stretch, <<pos[1], pos[2] + 10, pos[3]>>,
                           <<85, 125, 85>>, "stretch", n)
                   \o Pose(f_settle, pos, base_scale, "settle", n)]
    ELSE [f |-> st.f, k |-> st.k \o Pose(st.f, pos, base_scale, "first", n)]

(* the hold keyframe one frame late *)
hold_one_frame_late(st, pos, wait, n) ==
    IF wait > 0
    THEN [f |-> st.f + wait + 1,
          k |-> st.k \o Pose(st.f + wait + 1, pos, base_scale, "hold", n)]
    ELSE st

(* if there's a wait time, hold position *)
hold(st, pos, wait, n) ==
    IF wait > 0
    THEN [f |-> st.f + wait,
          k |-> st.k \o Pose(st.f + wait, pos, base_scale, "hold", n)]
    ELSE st

(* leaving with the rigid body handed to the simulation *)
leave_ceding(st, last, n) ==
    IF ~last
    THEN [f |-> st.f + 3,
          k |-> st.k \o
                <<Key(st.f + 3, "scale", <<90, 110, 90>>, "anticipation", n),
                  Key(st.f + 3, "kinematic", FALSE, "anticipation", n)>>]
    ELSE st

(* leaving: anticipation stretch, keyed on scale only *)
leave(st, last, n) ==
    IF ~last
    THEN [f |-> st.f + 3,
          k |-> Append(st.k, Key(st.f + 3, "scale", <<90, 110, 90>>,
                                 "anticipation", n))]
    ELSE st

(* the loop of animate_transaction, from waypoint n on *)
RECURSIVE animate_transaction_loop(_, _, _, _, _)
animate_transaction_loop(waypoints, wait_times, n, current_frame, keys) ==
    IF n > Len(waypoints) THEN keys
    ELSE
      LET pos == waypoints[n]
          arrived == arrive([f |-> current_frame, k |-> keys], pos, n)
          held == hold(arrived, pos, wait_at(wait_times, n), n)
          left == leave(held, is_last(n, waypoints), n)
      IN animate_transaction_loop(waypoints, wait_times, n + 1,
                                  left.f + frames_per_move, left.k)

(* animate_transaction(sphere, waypoints, start_frame, wait_times): the    *)
(* sphere with the keyframes of the call appended                          *)
animate_transaction(sphere, waypoints, start_frame, wait_times) ==
    LET wt == IF wait_times = None
              THEN [k \in 1..Len(waypoints) |-> 0]
              ELSE wait_times[1]
    IN [sphere EXCEPT !.keys =
          animate_transaction_loop(waypoints, wt, 1, start_frame, sphere.keys)]

(* animate_ball(ball, waypoints, start_frame, frames_per_stop) *)
RECURSIVE animate_ball_loop(_, _, _, _, _)
animate_ball_loop(waypoints, frames_per_stop, n, frame, keys) ==
    IF n > Len(waypoints) THEN keys
    ELSE animate_ball_loop(waypoints, frames_per_stop, n + 1,
                           frame + frames_per_stop,
                           Append(keys, Key(frame, "location", waypoints[n],
                                            "stop", n)))

(* for pos in waypoints[1:] *)
animate_ball_skips_first(ball, waypoints, start_frame, frames_per_stop) ==
    [ball EXCEPT !.keys =
       animate_ball_loop(waypoints, frames_per_stop, 2, start_frame, ball.keys)]

animate_ball(ball, waypoints, start_frame, frames_per_stop) ==
    [ball EXCEPT !.keys =
       animate_ball_loop(waypoints, frames_per_stop, 1, start_frame, ball.keys)]

(* create_ball that adds a rigid body and keys it as simulated *)
create_ball_with_rigid_body(name, pos) ==
    [name |-> name, location |-> pos, kinematic |-> Some(FALSE),
     keys |-> <<Key(1, "kinematic", FALSE, "visible", 0)>>]

(* create_ball: a sphere without a rigid body *)
create_ball(name, pos) ==
    [name |-> name, location |-> pos, kinematic |-> None, keys |-> <<>>]

(* create_transaction_sphere: an ACTIVE rigid body that starts kinematic *)
create_transaction_sphere(name, location) ==
    [name |-> name, location |-> location, kinematic |-> Some(TRUE),
     keys |-> <<>>]

(* is_last = (i == len(path_points) - 1) in create_hybrid_transaction *)
is_last_stop(n, path_points) == (n = Len(path_points))

(* a missing entry of physics_frames taken as no simulation at all *)
physics_time_at_default_zero(physics_frames, n) ==
    IF n <= Len(physics_frames) THEN physics_frames[n] ELSE 0

(* physics_time = physics_frames[i] if i < len(physics_frames) else 50 *)
physics_time_at(physics_frames, n) ==
    IF n <= Len(physics_frames) THEN physics_frames[n] ELSE 50

(* the drop one frame after the arrival *)
enter_and_drop_after_one_frame(st, pos, r, n) ==
    LET above_pos == <<pos[1] + uniform(-30, 30, r), pos[2] + 250,
                       pos[3] + uniform(-20, 20, random_next(r))>>
    IN [f |-> st.f + 1,
        k |-> st.k \o
              <<Key(st.f, "kinematic", TRUE, "arrive", n),
                Key(st.f, "location", above_pos, "arrive", n),
                Key(st.f + 1, "kinematic", FALSE, "cede", n)>>]

(* the drop followed by a location keyframe during the simulation *)
enter_and_drop_then_place(st, pos, r, n) ==
    LET above_pos == <<pos[1] + uniform(-30, 30, r), pos[2] + 250,
                       pos[3] + uniform(-20, 20, random_next(r))>>
    IN [f |-> st.f + 2,
        k |-> st.k \o
              <<Key(st.f, "kinematic", TRUE, "arrive", n),
                Key(st.f, "location", above_pos, "arrive", n),
                Key(st.f + 2, "kinematic", FALSE, "cede", n),
                Key(st.f + 3, "location", pos, "cede", n)>>]

(* kinematic travel to the entry point above the container (two draws     *)
(* from the stream in state r), then the drop two frames later             *)
enter_and_drop(st, pos, r, n) ==
    LET above_pos == <<pos[1] + uniform(-30, 30, r), pos[2] + 250,
                       pos[3] + uniform(-20, 20, random_next(r))>>
    IN [f |-> st.f + 2,
        k |-> st.k \o
              <<Key(st.f, "kinematic", TRUE, "arrive", n),
                Key(st.f, "location", above_pos, "arrive", n),
                Key(st.f + 2, "kinematic", FALSE, "cede", n)>>]

(* the pick-up with a rise of 7 frames *)
pick_up_and_arc_quick_rise(st, pos, next_pos, n) ==
    LET f_rise == st.f + 7
        f_arc == f_rise + travel_frames \div 2
    IN [f |-> f_arc + travel_frames \div 2,
        k |-> st.k \o
              <<Key(st.f, "kinematic", TRUE, "resume", n),
                Key(st.f, "location", <<pos[1], pos[2] - 100, pos[3]>>,
                    "resume", n),
                Key(f_rise, "location", <<pos[1], pos[2] + 300, pos[3]>>,
                    "rise", n),
                Key(f_arc, "location",
                    <<(pos[1] + next_pos[1]) \div 2, 600,
                      (pos[3] + next_pos[3]) \div 2>>, "arc", n)>>]

(* the pick-up with a squash keyed on the scale *)
pick_up_squashed_and_arc(st, pos, next_pos, n) ==
    LET f_rise == st.f + 8
        f_arc == f_rise + travel_frames \div 2
    IN [f |-> f_arc + travel_frames \div 2,
        k |-> st.k \o
              <<Key(st.f, "kinematic", TRUE, "resume", n),
                Key(st.f, "location", <<pos[1], pos[2] - 100, pos[3]>>,
                    "resume", n),
                Key(st.f, "scale", <<115, 70, 115>>, "resume", n),
                Key(f_rise, "location", <<pos[1], pos[2] + 300, pos[3]>>,
                    "rise", n),
                Key(f_arc, "location",
                    <<(pos[1] + next_pos[1]) \div 2, 600,
                      (pos[3] + next_pos[3]) \div 2>>, "arc", n)>>]

(* not the last stop: pick up, rise out of the container, arc to the next *)
pick_up_and_arc(st, pos, next_pos, n) ==
    LET f_rise == st.f + 8
        f_arc == f_rise + travel_frames \div 2
    IN [f |-> f_arc + travel_frames \div 2,
        k |-> st.k \o
              <<Key(st.f, "kinematic", TRUE, "resume", n),
                Key(st.f, "location", <<pos[1], pos[2] - 100, pos[3]>>,
                    "resume", n),
                Key(f_rise, "location", <<pos[1], pos[2] + 300, pos[3]>>,
                    "rise", n),
                Key(f_arc, "location",
                    <<(pos[1] + next_pos[1]) \div 2, 600,
                      (pos[3] + next_pos[3]) \div 2>>, "arc", n)>>]

(* the last stop resumed without a location keyframe *)
exit_upward_unplaced(st, pos, n) ==
    [f |-> st.f + 15,
     k |-> st.k \o
           <<Key(st.f, "kinematic", TRUE, "resume", n),
             Key(st.f + 15, "location",
                 <<pos[1], pos[2] + 600, pos[3] + 500>>, "exit", n)>>]

(* the last stop without its kinematic = True keyframe *)
exit_upward_without_resume(st, pos, n) ==
    [f |-> st.f + 15,
     k |-> st.k \o
           <<Key(st.f, "location", pos, "resume", n),
             Key(st.f + 15, "location",
                 <<pos[1], pos[2] + 600, pos[3] + 500>>, "exit", n)>>]

(* last stop: exit upward *)
exit_upward(st, pos, n) ==
    [f |-> st.f + 15,
     k |-> st.k \o
           <<Key(st.f, "kinematic", TRUE, "resume", n),
             Key(st.f, "location", pos, "resume", n),
             Key(st.f + 15, "location",
                 <<pos[1], pos[2] + 600, pos[3] + 500>>, "exit", n)>>]

(* the loop of create_hybrid_transaction, from stage n on; r is the state  *)
(* of the random stream, advanced by the two draws of every stage          *)
RECURSIVE create_hybrid_transaction_loop(_, _, _, _, _, _)
create_hybrid_transaction_loop(path_points, physics_frames, n, frame, keys, r) ==
    IF n > Len(path_points) THEN [keys |-> keys, rng |-> r]
    ELSE
      LET pos == path_points[n]
          dropped == enter_and_drop([f |-> frame, k |-> keys], pos, r, n)
          simulated == [dropped EXCEPT
                          !.f = @ + physics_time_at(physics_frames, n)]
          left == IF ~is_last_stop(n, path_points)
                  THEN pick_up_and_arc(simulated, pos, path_points[n + 1], n)
                  ELSE exit_upward(simulated, pos, n)
      IN create_hybrid_transaction_loop(path_points, physics_frames, n + 1,
                                        left.f, left.k,
                                        random_next(random_next(r)))

(* create_hybrid_transaction(name, color_name, path_points, spawn_frame,   *)
(* physics_frames): the sphere it returns and the stream state it leaves   *)
create_hybrid_transaction(name, path_points, spawn_frame, physics_frames, r) ==
    LET start_pos == <<path_points[1][1], path_points[1][2] + 400,
                       path_points[1][3] + 300>>
        sphere == create_transaction_sphere(name, start_pos)
        hidden ==
          <<Key(spawn_frame - 1, "hide_render", TRUE, "hidden", 0),
            Key(spawn_frame - 1, "hide_viewport", TRUE, "hidden", 0),
            Key(spawn_frame, "hide_render", FALSE, "visible", 0),
            Key(spawn_frame, "hide_viewport", FALSE, "visible", 0)>>
        out == create_hybrid_transaction_loop(path_points, physics_frames, 1,
                                              spawn_frame, hidden, r)
    IN [sphere |-> [sphere EXCEPT !.keys = out.keys,
                                  !.kinematic = Some(TRUE)],
        rng |-> out.rng]

(* spawn_physics_ball without the frozen keyframe before the spawn *)
spawn_physics_ball_never_frozen(name, location, spawn_frame) ==
    [name |-> name, location |-> location, kinematic |-> Some(FALSE),
     keys |->
       <<Key(spawn_frame - 1, "hide_render", TRUE, "hidden", 0),
         Key(spawn_frame - 1, "hide_viewport", TRUE, "hidden", 0),
         Key(spawn_frame, "hide_render", FALSE, "visible", 0),
         Key(spawn_frame, "hide_viewport", FALSE, "visible", 0),
         Key(spawn_frame, "kinematic", FALSE, "visible", 0)>>]

(* spawn_physics_ball(name, color_name, location, spawn_frame) *)
spawn_physics_ball(name, location, spawn_frame) ==
    LET sphere == create_transaction_sphere(name, location)
    IN [sphere EXCEPT
          !.kinematic = Some(FALSE),
          !.keys =
            <<Key(spawn_frame - 1, "hide_render", TRUE, "hidden", 0),
              Key(spawn_frame - 1, "hide_viewport", TRUE, "hidden", 0),
              Key(spawn_frame - 1, "kinematic", TRUE, "hidden", 0),
              Key(spawn_frame, "hide_render", FALSE, "visible", 0),
              Key(spawn_frame, "hide_viewport", FALSE, "visible", 0),
              Key(spawn_frame, "kinematic", FALSE, "visible", 0)>>]

-----------------------------------------------------------------------------
(* A library session: a caller holding one set of arguments calls the      *)
(* emitters one after another; every call adds one object to the scene.    *)

(* setup_physics_world: rbw.point_cache.frame_end = 600 *)
point_cache_frame_end == 600

(* frame range of a scene no script has configured *)
default_frames == [frame_start |-> 1, frame_end |-> 250]

Args ==
    [waypoints : Paths,
     start_frame : StartFrames,
     times : {None} \cup {Some(t) : t \in Times},
     frames_per_stop : {1, 30}]

LibInit ==
    /\ args \in Args
    /\ scene = <<>>
    /\ rng \in UnseededStates
    /\ pc = "lib"
    /\ i = 0
    /\ frames = default_frames
    /\ runs = <<>>

(* sphere = create_transaction_sphere(...); animate_transaction(sphere,    *)
(* waypoints, start_frame, wait_times)                                     *)
CallAnimateTransaction ==
    /\ pc = "lib"
    /\ Len(scene) < MaxEntities
    /\ scene' = Append(scene,
         [fn |-> "animate_transaction",
          obj |-> animate_transaction(
                    create_transaction_sphere("tx", args.waypoints[1]),
                    args.waypoints, args.start_frame, args.times)])
    /\ UNCHANGED <<args, rng, pc, i, frames, runs>>

(* ball = create_ball(...); animate_ball(ball, waypoints, start_frame,     *)
(* frames_per_stop)                                                        *)
CallAnimateBall ==
    /\ pc = "lib"
    /\ Len(scene) < MaxEntities
    /\ scene' = Append(scene,
         [fn |-> "animate_ball",
          obj |-> animate_ball(create_ball("tx", args.waypoints[1]),
                               args.waypoints, args.start_frame,
                               args.frames_per_stop)])
    /\ UNCHANGED <<args, rng, pc, i, frames, runs>>

(* create_hybrid_transaction(name, color, path_points, spawn_frame,        *)
(* physics_frames); physics_frames is a list, never None                   *)
CallCreateHybridTransaction ==
    /\ pc = "lib"
    /\ Len(scene) < MaxEntities
    /\ args.times # None
    /\ LET out == create_hybrid_transaction("tx", args.waypoints,
                                            args.start_frame, args.times[1],
                                            rng)
       IN /\ scene' = Append(scene, [fn |-> "create_hybrid_transaction",
                                     obj |-> out.sphere])
          /\ rng' = out.rng
    /\ UNCHANGED <<args, pc, i, frames, runs>>

(* spawn_physics_ball(name, color, location, spawn_frame) *)
CallSpawnPhysicsBall ==
    /\ pc = "lib"
    /\ Len(scene) < MaxEntities
    /\ scene' = Append(scene,
         [fn |-> "spawn_physics_ball",
          obj |-> spawn_physics_ball("tx", args.waypoints[1],
                                     args.start_frame)])
    /\ UNCHANGED <<args, rng, pc, i, frames, runs>>

LibNext ==
    \/ CallAnimateTransaction
    \/ CallAnimateBall
    \/ CallCreateHybridTransaction
    \/ CallSpawnPhysicsBall

-----------------------------------------------------------------------------
(* The script blender_channel_scene.py run as __main__: create_channel_scene *)
(* and then the rendering the command line asks for.                        *)

num_writes == 8
num_reads == 8

(* f"{i:03d}" *)
Digit(d) == CASE d = 0 -> "0" [] d = 1 -> "1" [] d = 2 -> "2" [] d = 3 -> "3"
              [] d = 4 -> "4" [] d = 5 -> "5" [] d = 6 -> "6" [] d = 7 -> "7"
              [] d = 8 -> "8" [] d = 9 -> "9"

Format03d(k) == Digit((k \div 100) % 10) \o Digit((k \div 10) % 10)
                \o Digit(k % 10)

wcache_spawn == <<0, 500, 500>>
read_rs_spawn == <<350, 500, 150>>

(* x, y, z of one spawn: three draws from the stream in state r *)
spawn_position(base, r) ==
    <<base[1] + uniform(-100, 100, r),
      base[2] + uniform(0, 200, random_next(r)),
      base[3] + uniform(-30, 30, random_next(random_next(r)))>>

write_spawn_frame(k) == 1 + k * 30
read_spawn_frame(k) == 15 + k * 35

(* the command line: blender [-b] -P script [opt] or ... -- [opt] *)
CommandLines ==
    [background : BOOLEAN,
     opt : {"", "--render-frame", "-f", "--render-anim"},
     after_dashes : BOOLEAN]

SceneInit ==
    /\ args \in CommandLines
    /\ scene = <<>>
    /\ rng \in UnseededStates
    /\ pc = "start"
    /\ i = 0
    /\ frames = default_frames
    /\ runs = <<>>

(* create_channel_scene up to the spawn loops: clear_scene, the static     *)
(* scene, setup_render_settings, random.seed(42)                           *)
BeginScene ==
    /\ pc = "start"
    /\ scene' = <<>>
    /\ frames' = [frame_start |-> 1, frame_end |-> 120]
    /\ rng' = random_seed(42)
    /\ pc' = "writes"
    /\ i' = 0
    /\ UNCHANGED <<args, runs>>

(* one iteration of the WRITE loop *)
SpawnWrite ==
    /\ pc = "writes"
    /\ i < num_writes
    /\ scene' = Append(scene,
         [fn |-> "spawn_physics_ball",
          obj |-> spawn_physics_ball("WriteTx_" \o Format03d(i),
                                     spawn_position(wcache_spawn, rng),
                                     write_spawn_frame(i))])
    /\ rng' = random_next(random_next(random_next(rng)))
    /\ i' = IF i + 1 < num_writes THEN i + 1 ELSE 0
    /\ pc' = IF i + 1 < num_writes THEN "writes" ELSE "reads"
    /\ UNCHANGED <<args, frames, runs>>

(* one iteration of the READ loop; after the last one frame_end = 500 *)
SpawnRead ==
    /\ pc = "reads"
    /\ i < num_reads
    /\ scene' = Append(scene,
         [fn |-> "spawn_physics_ball",
          obj |-> spawn_physics_ball("ReadTx_" \o Format03d(i),
                                     spawn_position(read_rs_spawn, rng),
                                     read_spawn_frame(i))])
    /\ rng' = random_next(random_next(random_next(rng)))
    /\ i' = IF i + 1 < num_reads THEN i + 1 ELSE 0
    /\ pc' = IF i + 1 < num_reads THEN "reads" ELSE "built"
    /\ frames' = IF i + 1 < num_reads THEN frames
                 ELSE [frames EXCEPT !.frame_end = 500]
    /\ UNCHANGED <<args, runs>>

(* "--render-frame" in sys.argv or "-f" in sys.argv: anywhere on the line; *)
(* "--render-anim" in argv: only after the "--"                            *)
wants_render_frame == args.opt \in {"--render-frame", "-f"}
wants_render_anim == args.opt = "--render-anim" /\ args.after_dashes

Finished == Append(runs, [scene |-> scene, frames |-> frames'])

(* render_frame(path, frame=60): the frame range is left alone *)
RenderFrame ==
    /\ pc = "built"
    /\ args.background /\ wants_render_frame
    /\ frames' = frames
    /\ pc' = "done"
    /\ runs' = Finished
    /\ UNCHANGED <<args, scene, rng, i>>

(* render_animation(path): start = 1, end = 120 by default *)
RenderAnimation ==
    /\ pc = "built"
    /\ args.background /\ ~wants_render_frame /\ wants_render_anim
    /\ frames' = [frame_start |-> 1, frame_end |-> 120]
    /\ pc' = "done"
    /\ runs' = Finished
    /\ UNCHANGED <<args, scene, rng, i>>

(* interactive, or no render flag: nothing is rendered *)
NoRender ==
    /\ pc = "built"
    /\ ~args.background \/ (~wants_render_frame /\ ~wants_render_anim)
    /\ frames' = frames
    /\ pc' = "done"
    /\ runs' = Finished
    /\ UNCHANGED <<args, scene, rng, i>>

(* the same command line is run again in a fresh process and a fresh       *)
(* Blender scene: the random stream is unseeded again                      *)
RunAgain ==
    /\ pc = "done"
    /\ Len(runs) < MaxRuns
    /\ scene' = <<>>
    /\ frames' = default_frames
    /\ rng' \in UnseededStates
    /\ pc' = "start"
    /\ UNCHANGED <<args, i, runs>>

SceneNext ==
    \/ BeginScene
    \/ SpawnWrite
    \/ SpawnRead
    \/ RenderFrame
    \/ RenderAnimation
    \/ NoRender
    \/ RunAgain

-----------------------------------------------------------------------------
(* The script blender_channel_scene_backup_nophysics.py run as __main__:    *)
(* create_scene, the schematic without physics.                             *)

(* STRUCTURES of the no-physics script: pos and size *)
NP_STRUCTURES ==
    [wcache      |-> [pos |-> <<0, 50, 600>>, size |-> <<400, 100, 200>>],
     write_rs    |-> [pos |-> <<-400, 50, 200>>, size |-> <<300, 100, 200>>],
     read_rs     |-> [pos |-> <<400, 50, 200>>, size |-> <<300, 100, 200>>],
     dram        |-> [pos |-> <<0, 50, -300>>, size |-> <<600, 100, 250>>],
     read_return |-> [pos |-> <<800, 50, -300>>, size |-> <<300, 100, 200>>]]

wcache_center == <<0, 50, 600>>
write_rs_center == <<-400, 50, 200>>
read_rs_center == <<400, 50, 200>>
dram_center == <<0, 50, -300>>
read_return_center == <<800, 50, -300>>

(* get_slot_offset(slot_index, max_slots=4) *)
get_slot_offset(slot_index) == <<-90, -30, 30, 90>>[(slot_index % 4) + 1]

np_num_writes == 6
np_num_reads == 6

(* the waypoints of write ball k: Enter, WCache, Write RS, DRAM (left) *)
write_waypoints(k) ==
    LET x_off == get_slot_offset(k % 4)
    IN <<<<0 + x_off, 50, 1200>>,
         <<wcache_center[1] + x_off, 50, wcache_center[3]>>,
         <<write_rs_center[1] + x_off, 50, write_rs_center[3]>>,
         <<dram_center[1] - 150 + x_off, 50, dram_center[3]>>>>

(* read ball k visits Read Return before DRAM *)
read_waypoints_swapped(k) ==
    LET x_off == get_slot_offset(k % 4)
    IN <<<<400 + x_off, 50, 1200>>,
         <<read_rs_center[1] + x_off, 50, read_rs_center[3]>>,
         <<read_return_center[1] + x_off, 50, read_return_center[3]>>,
         <<dram_center[1] + 150 + x_off, 50, dram_center[3]>>,
         <<read_return_center[1] + x_off, 50, 1200>>>>

(* the waypoints of read ball k: Enter, Read RS, DRAM (right), Read        *)
(* Return, Exit                                                            *)
read_waypoints(k) ==
    LET x_off == get_slot_offset(k % 4)
    IN <<<<400 + x_off, 50, 1200>>,
         <<read_rs_center[1] + x_off, 50, read_rs_center[3]>>,
         <<dram_center[1] + 150 + x_off, 50, dram_center[3]>>,
         <<read_return_center[1] + x_off, 50, read_return_center[3]>>,
         <<read_return_center[1] + x_off, 50, 1200>>>>

np_write_start(k) == 1 + k * 25
(* the read balls started 60 frames apart *)
np_read_start_late(k) == 10 + k * 60

np_read_start(k) == 10 + k * 30

np_write_frames_per_stop == 40
np_read_frames_per_stop == 45

NoPhysicsInit ==
    /\ args = None
    /\ scene = <<>>
    /\ rng \in UnseededStates
    /\ pc = "np_start"
    /\ i = 0
    /\ frames = default_frames
    /\ runs = <<>>

(* create_scene up to the loops: clear_scene, world, camera, light, boxes *)
BeginNoPhysicsScene ==
    /\ pc = "np_start"
    /\ scene' = <<>>
    /\ pc' = "np_writes"
    /\ i' = 0
    /\ UNCHANGED <<args, rng, frames, runs>>

(* one iteration of the WRITE loop of create_scene *)
AnimateWriteBall ==
    /\ pc = "np_writes"
    /\ i < np_num_writes
    /\ scene' = Append(scene,
         [fn |-> "animate_ball",
          obj |-> animate_ball(
                    create_ball("write_" \o Digit(i), write_waypoints(i)[1]),
                    write_waypoints(i), np_write_start(i),
                    np_write_frames_per_stop)])
    /\ i' = IF i + 1 < np_num_writes THEN i + 1 ELSE 0
    /\ pc' = IF i + 1 < np_num_writes THEN "np_writes" ELSE "np_reads"
    /\ UNCHANGED <<args, rng, frames, runs>>

(* one iteration of the READ loop; after the last one frame_end = 450 *)
AnimateReadBall ==
    /\ pc = "np_reads"
    /\ i < np_num_reads
    /\ scene' = Append(scene,
         [fn |-> "animate_ball",
          obj |-> animate_ball(
                    create_ball("read_" \o Digit(i), read_waypoints(i)[1]),
                    read_waypoints(i), np_read_start(i),
                    np_read_frames_per_stop)])
    /\ i' = IF i + 1 < np_num_reads THEN i + 1 ELSE 0
    /\ pc' = IF i + 1 < np_num_reads THEN "np_reads" ELSE "np_done"
    /\ frames' = IF i + 1 < np_num_reads THEN frames
                 ELSE [frames EXCEPT !.frame_end = 450]
    /\ UNCHANGED <<args, rng, runs>>

NoPhysicsNext ==
    \/ BeginNoPhysicsScene
    \/ AnimateWriteBall
    \/ AnimateReadBall

(* the path of the k-th ball of the no-physics scene *)
NoPhysicsPath(k) ==
    IF k <= np_num_writes THEN write_waypoints(k - 1)
    ELSE read_waypoints(k - 1 - np_num_writes)

-----------------------------------------------------------------------------
(* The topology the four programs draw: the stage boxes and the links      *)
(* between them.  A link is identified by the two stages its end points    *)
(* lie in (box edges included).                                            *)

StageNames == {"wcache", "write_rs", "read_rs", "dram", "read_return"}

(* 'size' of the STRUCTURES of blender_channel_scene.py *)
STRUCTURE_SIZES ==
    [wcache      |-> <<500, 300, 200>>,
     write_rs    |-> <<400, 300, 250>>,
     read_rs     |-> <<400, 300, 250>>,
     dram        |-> <<800, 300, 300>>,
     read_return |-> <<250, 300, 300>>]

(* point p is inside the box centred at pos (create_structure_box) *)
in_box(p, pos, size) ==
    \A d \in 1..3 : 2 * (p[d] - pos[d]) <= size[d] /\ 2 * (pos[d] - p[d]) <= size[d]

(* point p is inside the rectangle with corner (x, y) (draw_structure) *)
in_rect(p, r) ==
    /\ r.x <= p[1] /\ p[1] <= r.x + r.width
    /\ r.y <= p[2] /\ p[2] <= r.y + r.height

(* the stage of the physics scene that holds point p, "" when none does *)
stage_of_scene_point(p) ==
    LET hits == {s \in StageNames : in_box(p, STRUCTURES[s], STRUCTURE_SIZES[s])}
    IN IF hits = {} THEN "" ELSE CHOOSE s \in hits : TRUE

(* the stage of the no-physics scene that holds point p *)
stage_of_schematic_point(p) ==
    LET hits == {s \in StageNames :
                   in_box(p, NP_STRUCTURES[s].pos, NP_STRUCTURES[s].size)}
    IN IF hits = {} THEN "" ELSE CHOOSE s \in hits : TRUE

(* the half-pipes with the last one ending beside the Read Return box *)
half_pipes_with_loose_end ==
    {[start |-> <<0, 30, 400 - 100>>, end |-> <<-350, 30, 0 + 125>>],
     [start |-> <<-350, 30, 0 - 125>>, end |-> <<-200, 30, -500 + 150>>],
     [start |-> <<350, 30, 0 - 125>>, end |-> <<200, 30, -500 + 150>>],
     [start |-> <<300, 30, -500 - 150>>, end |-> <<500, 30, -500 + 150>>]}

(* the create_half_pipe calls of create_channel_scene: start and end *)
half_pipes ==
    {[start |-> <<0, 30, 400 - 100>>, end |-> <<-350, 30, 0 + 125>>],
     [start |-> <<-350, 30, 0 - 125>>, end |-> <<-200, 30, -500 + 150>>],
     [start |-> <<350, 30, 0 - 125>>, end |-> <<200, 30, -500 + 150>>],
     [start |-> <<300, 30, -500 - 150>>, end |-> <<700, 30, -500 + 150>>]}

half_pipe_transitions ==
    {<<stage_of_scene_point(h.start), stage_of_scene_point(h.end)>> :
       h \in half_pipes}

(* STRUCTURES of channel_visualizer.py, in pixels, y pointing down *)
VISUALIZER_STRUCTURES ==
    [wcache      |-> [x |-> 450, y |-> 50, width |-> 300, height |-> 120],
     write_rs    |-> [x |-> 200, y |-> 220, width |-> 250, height |-> 150],
     read_rs     |-> [x |-> 550, y |-> 220, width |-> 250, height |-> 150],
     dram        |-> [x |-> 300, y |-> 480, width |-> 400, height |-> 200],
     read_return |-> [x |-> 850, y |-> 480, width |-> 180, height |-> 200]]

(* the draw_arrow calls of draw_flow_arrows in channel_visualizer.py *)
visualizer_arrows ==
    LET wcache == VISUALIZER_STRUCTURES.wcache
        write_rs == VISUALIZER_STRUCTURES.write_rs
        read_rs == VISUALIZER_STRUCTURES.read_rs
        dram == VISUALIZER_STRUCTURES.dram
        read_return == VISUALIZER_STRUCTURES.read_return
    IN {[start |-> <<wcache.x + wcache.width \div 3, wcache.y + wcache.height>>,
         end |-> <<write_rs.x + write_rs.width \div 2, write_rs.y>>],
        [start |-> <<write_rs.x + write_rs.width \div 2,
                     write_rs.y + write_rs.height>>,
         end |-> <<dram.x + dram.width \div 3, dram.y>>],
        [start |-> <<read_rs.x + read_rs.width \div 2,
                     read_rs.y + read_rs.height>>,
         end |-> <<dram.x + (2 * dram.width) \div 3, dram.y>>],
        [start |-> <<dram.x + dram.width, dram.y + dram.height \div 2>>,
         end |-> <<read_return.x, read_return.y + read_return.height \div 2>>]}

(* STRUCTURES of channel_layout_static.py, y pointing up; the lengths are  *)
(* in sixths of a plot unit so that width/3 and width/2 are exact          *)
STATIC_STRUCTURES ==
    [wcache      |-> [x |-> 210, y |-> 450, width |-> 180, height |-> 72],
     write_rs    |-> [x |-> 90, y |-> 300, width |-> 150, height |-> 90],
     read_rs     |-> [x |-> 300, y |-> 300, width |-> 150, height |-> 90],
     dram        |-> [x |-> 150, y |-> 60, width |-> 240, height |-> 120],
     read_return |-> [x |-> 468, y |-> 60, width |-> 90, height |-> 120]]

(* the draw_arrow calls of draw_flow_arrows in channel_layout_static.py *)
static_arrows ==
    LET wcache == STATIC_STRUCTURES.wcache
        write_rs == STATIC_STRUCTURES.write_rs
        read_rs == STATIC_STRUCTURES.read_rs
        dram == STATIC_STRUCTURES.dram
        read_return == STATIC_STRUCTURES.read_return
    IN {[start |-> <<wcache.x + wcache.width \div 3, wcache.y>>,
         end |-> <<write_rs.x + write_rs.width \div 2,
                   write_rs.y + write_rs.height>>],
        [start |-> <<write_rs.x + write_rs.width \div 2, write_rs.y>>,
         end |-> <<dram.x + dram.width \div 3, dram.y + dram.height>>],
        [start |-> <<read_rs.x + read_rs.width \div 2, read_rs.y>>,
         end |-> <<dram.x + (2 * dram.width) \div 3, dram.y + dram.height>>],
        [start |-> <<dram.x + dram.width, dram.y + dram.height \div 2>>,
         end |-> <<read_return.x, read_return.y + read_return.height \div 2>>]}

(* the stage of a 2D layout that holds point p *)
stage_of_layout_point(p, structures) ==
    LET hits == {s \in StageNames : in_rect(p, structures[s])}
    IN IF hits = {} THEN "" ELSE CHOOSE s \in hits : TRUE

arrow_transitions(arrows, structures) ==
    {<<stage_of_layout_point(a.start, structures),
       stage_of_layout_point(a.end, structures)>> : a \in arrows}

-----------------------------------------------------------------------------
(* Either the functions are called one by one, or one of the scripts is run *)

Init == LibInit \/ SceneInit \/ NoPhysicsInit

Next == LibNext \/ SceneNext \/ NoPhysicsNext

Spec == Init /\ [][Next]_vars

-----------------------------------------------------------------------------
(* Reading a timeline *)

Objects(fns) == {k \in 1..Len(scene) : scene[k].fn \in fns}

KeysOf(k, data_path) ==
    SelectSeq(scene[k].obj.keys, LAMBDA x : x.data_path = data_path)

FramesOf(keys) == {keys[a].frame : a \in 1..Len(keys)}

MinFrame(keys) == CHOOSE f \in FramesOf(keys) : \A g \in FramesOf(keys) : f <= g
MaxFrame(keys) == CHOOSE f \in FramesOf(keys) : \A g \in FramesOf(keys) : f >= g

(* value of the F-curve at its last keyframe: a keyframe inserted on a     *)
(* frame that is already keyed replaces the older one                      *)
EndValue(keys) ==
    LET last == CHOOSE a \in 1..Len(keys) :
                  /\ keys[a].frame = MaxFrame(keys)
                  /\ \A b \in 1..Len(keys) :
                       keys[b].frame = MaxFrame(keys) => b <= a
    IN keys[last].value

(* index of the last keyframe of the timeline that satisfies Test *)
LastIndex(keys, Test(_)) ==
    LET hits == {a \in 1..Len(keys) : Test(keys[a])}
    IN IF hits = {} THEN 0 ELSE CHOOSE a \in hits : \A b \in hits : b <= a

KeysAfter(keys, from) == SubSeq(keys, from + 1, Len(keys))

(* the dwell list the caller passed, when one was passed *)
DwellList == IF args.times = None THEN <<>> ELSE args.times[1]

-----------------------------------------------------------------------------
(* C1 - Monotonic time in the scripted emitters: in every timeline built   *)
(* by animate_transaction or animate_ball the keyframe frames strictly     *)
(* increase in emission order; the location and scale keyframes of one     *)
(* sample share their frame.                                               *)

SameSample(x, y) == x.phase = y.phase /\ x.stop = y.stop

StrictlyTimed(keys) ==
    \A a, b \in 1..Len(keys) :
        a < b => IF SameSample(keys[a], keys[b])
                 THEN keys[a].frame = keys[b].frame
                 ELSE keys[a].frame < keys[b].frame

C1_ScriptedTimeStrictlyIncreases ==
    \A k \in Objects({"animate_transaction", "animate_ball"}) :
        StrictlyTimed(scene[k].obj.keys)

(* a bounced arrival with a hold, and a ball with two stops *)
C1_Witness ==
    /\ \E k \in Objects({"animate_transaction"}) :
         /\ \E a \in 1..Len(scene[k].obj.keys) :
              scene[k].obj.keys[a].phase = "squash"
         /\ \E a \in 1..Len(scene[k].obj.keys) :
              scene[k].obj.keys[a].phase = "hold"
    /\ \E k \in Objects({"animate_ball"}) : Len(scene[k].obj.keys) >= 2

(* C2 - Monotonic time in the physics emitter: the kinematic keyframes of  *)
(* a create_hybrid_transaction timeline fall on strictly increasing        *)
(* frames, also when a dwell is 0.                                         *)
C2_ControlModeTimeStrictlyIncreases ==
    \A k \in Objects({"create_hybrid_transaction"}) :
        LET kin == KeysOf(k, "kinematic")
        IN \A a \in 1..(Len(kin) - 1) : kin[a].frame < kin[a + 1].frame

(* C3 - Bounded hand-off, as claimed: every kinematic = False keyframe of  *)
(* an entity built by create_hybrid_transaction or spawn_physics_ball is   *)
(* followed by a kinematic = True keyframe, and the timeline ends SCRIPTED. *)
Resumed(kin) ==
    /\ \A a \in 1..Len(kin) :
         kin[a].value = FALSE =>
           \E b \in (a + 1)..Len(kin) :
              kin[b].value = TRUE /\ kin[b].frame >= kin[a].frame
    /\ EndValue(kin) = TRUE

C4_FirstControlModeIsScripted ==
    \A k \in 1..Len(scene) :
        scene[k].obj.kinematic # None =>
          LET kin == KeysOf(k, "kinematic")
          IN IF kin = <<>>
             THEN scene[k].obj.kinematic = Some(TRUE)
             ELSE /\ kin[1].value = TRUE
                  /\ kin[1].frame = MinFrame(kin)
                  /\ \A a \in 1..Len(kin) :
                       kin[a].value = FALSE => kin[a].frame > MinFrame(kin)

(* a fresh sphere, or a hybrid timeline, next to a spawned ball *)
C4_Witness ==
    /\ Objects({"create_hybrid_transaction", "animate_transaction"}) # {}
    /\ Objects({"spawn_physics_ball"}) # {}
    /\ pc = "lib"

(* C5 - Per-entity independence of the random stream: the jitter of an     *)
(* entity does not depend on the entities synthesized before it.  Two      *)
(* create_hybrid_transaction calls with the same arguments give the same   *)
(* samples, and every ball of create_channel_scene is spawned where it     *)
(* would be spawned as the first ball after the seeding.                   *)
C5_JitterIndependentOfOtherEntities ==
    /\ \A k, m \in Objects({"create_hybrid_transaction"}) :
         pc = "lib" => scene[k].obj.keys = scene[m].obj.keys
    /\ \A k \in Objects({"spawn_physics_ball"}) :
         pc # "lib" =>
           scene[k].obj.location =
             spawn_position(IF k <= num_writes THEN wcache_spawn
                            ELSE read_rs_spawn, random_seed(42))

(* C6 - Determinism: every run of create_channel_scene builds the same 16  *)
(* entities (names, spawn frames, spawn positions, keyframes); the stream  *)
(* is seeded with 42 and every spawned ball has consumed exactly 3 draws,  *)
(* the 8 writes before the 8 reads.                                        *)
RECURSIVE Draws(_, _)
Draws(r, n) == IF n = 0 THEN r ELSE Draws(random_next(r), n - 1)

C6_RunsBuildTheSameScene ==
    /\ \A a, b \in 1..Len(runs) : runs[a].scene = runs[b].scene
    /\ \A a \in 1..Len(runs) :
         /\ Len(runs[a].scene) = 16
         /\ \A k \in 1..16 :
              runs[a].scene[k].obj.name =
                IF k <= 8 THEN "WriteTx_" \o Format03d(k - 1)
                ELSE "ReadTx_" \o Format03d(k - 9)
    /\ pc \in {"writes", "reads", "built", "done"} =>
         rng = Draws(42, 3 * Len(scene))

(* two finished runs *)
C6_Witness == Len(runs) = 2 /\ pc = "done"

(* C7 - Path fidelity: the arrival samples of a timeline built by          *)
(* animate_transaction, animate_ball or create_hybrid_transaction visit    *)
(* the waypoints of the path in order, one arrival per path element, on    *)
(* increasing frames.  A scripted arrival is at the waypoint itself, a     *)
(* hybrid arrival at the entry point 2.5 above it, jittered by at most     *)
(* 0.3 in x and 0.2 in z.                                                  *)
Arrivals(k) ==
    SelectSeq(scene[k].obj.keys,
              LAMBDA x : /\ x.data_path = "location"
                         /\ x.phase \in {"first", "settle", "stop", "arrive"})

Abs(x) == IF x < 0 THEN -x ELSE x

(* the path object k was animated along *)
PathOf(k) == IF pc = "lib" THEN args.waypoints ELSE NoPhysicsPath(k)

AtEntryPoint(p, pos) ==
    /\ Abs(p[1] - pos[1]) <= 30
    /\ p[2] = pos[2] + 250
    /\ Abs(p[3] - pos[3]) <= 20

C7_ArrivalsFollowThePath ==
    \A k \in Objects({"animate_transaction", "animate_ball",
                      "create_hybrid_transaction"}) :
        LET arr == Arrivals(k)
        IN /\ Len(arr) = Len(PathOf(k))
           /\ \A n \in 1..Len(arr) :
                /\ arr[n].stop = n
                /\ IF scene[k].fn = "create_hybrid_transaction"
                   THEN AtEntryPoint(arr[n].value, PathOf(k)[n])
                   ELSE arr[n].value = PathOf(k)[n]
           /\ \A n \in 1..(Len(arr) - 1) : arr[n].frame < arr[n + 1].frame

(* a path over two different waypoints, walked by a scripted and by a      *)
(* hybrid timeline                                                         *)
C7_Witness ==
    /\ pc = "lib"
    /\ Len(args.waypoints) >= 2
    /\ args.waypoints[1] # args.waypoints[2]
    /\ Objects({"animate_transaction", "animate_ball"}) # {}
    /\ Objects({"create_hybrid_transaction"}) # {}

(* C8 - Terminal stage ends the timeline, as claimed: after the dwell at   *)
(* the last stage animate_transaction emits nothing and                    *)
(* create_hybrid_transaction emits no location keyframe away from the      *)
(* last stage's position.                                                  *)
LastStop == Len(args.waypoints)

(* the keyframes emitted after the dwell at the last stage *)
AfterLastDwell(k) ==
    LET keys == scene[k].obj.keys
    IN IF scene[k].fn = "animate_transaction"
       THEN KeysAfter(keys,
              LastIndex(keys, LAMBDA x : /\ x.stop = LastStop
                                         /\ x.phase \in {"first", "settle",
                                                         "hold"}))
       ELSE KeysAfter(keys,
              LastIndex(keys, LAMBDA x : x.stop = LastStop /\ x.phase = "cede"))

MovesAway(x) ==
    x.data_path = "location" /\ x.value # args.waypoints[LastStop]

C8_NothingLeavesTheLastStage ==
    /\ \A k \in Objects({"animate_transaction"}) : AfterLastDwell(k) = <<>>
    /\ \A k \in Objects({"create_hybrid_transaction"}) :
         \A a \in 1..Len(AfterLastDwell(k)) : ~MovesAway(AfterLastDwell(k)[a])

(* C8 amended - animate_transaction emits nothing after the dwell at the   *)
(* last stage; create_hybrid_transaction ends the timeline there with a    *)
(* resume keyframe at the last stage's position and one exit keyframe 15   *)
(* frames later, 6 above and 5 behind that position, and no travel to a    *)
(* further stage.                                                          *)
C8_LastStageEndsWithExitUpward ==
    /\ \A k \in Objects({"animate_transaction"}) : AfterLastDwell(k) = <<>>
    /\ \A k \in Objects({"create_hybrid_transaction"}) :
         LET after == AfterLastDwell(k)
             pos == args.waypoints[LastStop]
         IN /\ Len(after) = 3
            /\ after[1].data_path = "kinematic" /\ after[1].value = TRUE
            /\ after[2].data_path = "location" /\ after[2].value = pos
            /\ after[2].frame = after[1].frame
            /\ after[3].data_path = "location"
            /\ after[3].value = <<pos[1], pos[2] + 600, pos[3] + 500>>
            /\ after[3].frame = after[2].frame + 15
            /\ after[3].frame = MaxFrame(scene[k].obj.keys)

(* a scripted and a hybrid timeline over at least two stages *)
C8_Witness ==
    /\ pc = "lib"
    /\ Len(args.waypoints) >= 2
    /\ Objects({"animate_transaction"}) # {}
    /\ Objects({"create_hybrid_transaction"}) # {}

(* C9 - Same duration with and without physics, as claimed: for a path of  *)
(* at least two stages and one dwell per stage, the scripted and the       *)
(* physics timeline started on the same frame end on the same frame.       *)
OneDwellPerStage ==
    /\ pc = "lib"
    /\ Len(args.waypoints) >= 2
    /\ args.times # None
    /\ Len(DwellList) = Len(args.waypoints)

C9_SameLastFrame ==
    OneDwellPerStage =>
      \A k \in Objects({"animate_transaction"}) :
        \A m \in Objects({"create_hybrid_transaction"}) :
            MaxFrame(scene[m].obj.keys) = MaxFrame(scene[k].obj.keys)

(* C9 amended - under the same conditions the physics timeline ends        *)
(* exactly 17 frames after the scripted one.                               *)
C9_PhysicsEnds17FramesLater ==
    OneDwellPerStage =>
      \A k \in Objects({"animate_transaction"}) :
        \A m \in Objects({"create_hybrid_transaction"}) :
            MaxFrame(scene[m].obj.keys) = MaxFrame(scene[k].obj.keys) + 17

(* both timelines built for one path and one dwell list with a positive dwell *)
C9_Witness ==
    /\ OneDwellPerStage
    /\ \E d \in 1..Len(DwellList) : DwellList[d] > 0
    /\ Objects({"animate_transaction"}) # {}
    /\ Objects({"create_hybrid_transaction"}) # {}

(* C10 - Frame index at least 1: no keyframe of an entity spawned by       *)
(* create_channel_scene, and none of a create_hybrid_transaction entity    *)
(* with spawn_frame >= 1, is on frame 0 or below.                          *)
C10_NoKeyframeBeforeFrame1 ==
    \A k \in Objects({"create_hybrid_transaction", "spawn_physics_ball"}) :
        (pc = "lib" =>
           /\ scene[k].fn = "create_hybrid_transaction"
           /\ args.start_frame >= 1)
        => \A a \in 1..Len(scene[k].obj.keys) : scene[k].obj.keys[a].frame >= 1

(* the keyframes of object k that belong to waypoint or stage n *)
KeysOfStop(k, n) == SelectSeq(scene[k].obj.keys, LAMBDA x : x.stop = n)

(* the phases of a sequence of keyframes, in emission order *)
PhasesOf(keys) == [a \in 1..Len(keys) |-> keys[a].phase]

(* C11 - Embellishment never alters control mode: every keyframe that      *)
(* animate_transaction inserts is a location or a scale keyframe, none is  *)
(* a kinematic keyframe, and the sphere's kinematic flag after the call is *)
(* the one create_transaction_sphere gave it before the call.              *)
C11_EmbellishmentKeepsControlMode ==
    \A k \in Objects({"animate_transaction"}) :
        /\ \A a \in 1..Len(scene[k].obj.keys) :
             scene[k].obj.keys[a].data_path \in {"location", "scale"}
        /\ KeysOf(k, "kinematic") = <<>>
        /\ scene[k].obj.kinematic =
             create_transaction_sphere("tx", args.waypoints[1]).kinematic

(* a timeline with bounce, hold and anticipation keyframes *)
C11_Witness ==
    \E k \in Objects({"animate_transaction"}) :
        {"squash", "stretch", "settle", "hold", "anticipation"}
          \subseteq {scene[k].obj.keys[a].phase : a \in 1..Len(scene[k].obj.keys)}

(* C12 - Graceful degradation: create_scene of the no-physics script ends  *)
(* with 12 balls; every ball it has built is free of a rigid body and of   *)
(* kinematic keyframes and carries nothing but location keyframes, one per *)
(* waypoint of its path, at the waypoint, the first on the ball's start    *)
(* frame (1 + 25 i for write i, 10 + 30 i for read i) and each next one    *)
(* frames_per_stop (40 for writes, 45 for reads) later.                    *)
InNoPhysicsScene == pc \in {"np_writes", "np_reads", "np_done"}

C12_NoPhysicsSceneFullyScripted ==
    /\ pc = "np_done" => Len(scene) = 12
    /\ InNoPhysicsScene =>
         \A k \in 1..Len(scene) :
             LET keys == scene[k].obj.keys
                 is_write == k <= 6
                 start == IF is_write THEN 1 + (k - 1) * 25
                          ELSE 10 + (k - 7) * 30
                 step == IF is_write THEN 40 ELSE 45
                 path == IF is_write THEN write_waypoints(k - 1)
                         ELSE read_waypoints(k - 7)
             IN /\ scene[k].fn = "animate_ball"
                /\ scene[k].obj.kinematic = None
                /\ Len(keys) = Len(path)
                /\ \A n \in 1..Len(keys) :
                     /\ keys[n].data_path = "location"
                     /\ keys[n].value = path[n]
                     /\ keys[n].frame = start + (n - 1) * step

(* the finished scene of 6 write and 6 read balls *)
C12_Witness ==
    /\ pc = "np_done"
    /\ Cardinality(Objects({"animate_ball"})) = 12
    /\ Len(scene[12].obj.keys) = 5

(* location of object k at frame f, where the keyframes fix it: the first  *)
(* keyframe's value up to the first keyframe, the last one's from the last *)
(* keyframe on, a keyframe's value on its frame; None while the object is  *)
(* interpolated between two keyframes                                      *)
LocationAt(k, f) ==
    LET loc == KeysOf(k, "location")
    IN IF f <= loc[1].frame THEN Some(loc[1].value)
       ELSE IF f >= loc[Len(loc)].frame THEN Some(loc[Len(loc)].value)
       ELSE IF \E a \in 1..Len(loc) : loc[a].frame = f
            THEN Some(loc[CHOOSE a \in 1..Len(loc) : loc[a].frame = f].value)
            ELSE None

(* C13 - No two transaction balls overlap: in the finished no-physics      *)
(* scene, at every frame from 1 to frame_end, no two balls whose location  *)
(* is fixed by their keyframes are at the same location.                   *)
C13_NoTwoBallsAtTheSameLocation ==
    pc = "np_done" =>
      \A f \in 1..frames.frame_end :
        \A k \in 1..Len(scene) : \A m \in (k + 1)..Len(scene) :
            \/ LocationAt(k, f) = None
            \/ LocationAt(k, f) # LocationAt(m, f)

(* C14 - Paths follow defined transitions: the half-pipes of               *)
(* create_channel_scene and the arrows of both 2D layouts link the same    *)
(* four pairs of stages, WCache->Write RS, Write RS->DRAM, Read RS->DRAM   *)
(* and DRAM->Read Return, and whenever two consecutive location keyframes  *)
(* of a ball of the no-physics scene both lie inside a stage, the two      *)
(* stages are one of these pairs.                                          *)
Transitions ==
    {<<"wcache", "write_rs">>, <<"write_rs", "dram">>,
     <<"read_rs", "dram">>, <<"dram", "read_return">>}

StagePairs(k) ==
    LET loc == KeysOf(k, "location")
    IN {<<stage_of_schematic_point(loc[n].value),
          stage_of_schematic_point(loc[n + 1].value)>> : n \in 1..(Len(loc) - 1)}
       \ {pr \in (StageNames \cup {""}) \X (StageNames \cup {""}) :
            pr[1] = "" \/ pr[2] = ""}

C14_PathsFollowDefinedTransitions ==
    /\ half_pipe_transitions = Transitions
    /\ arrow_transitions(visualizer_arrows, VISUALIZER_STRUCTURES) = Transitions
    /\ arrow_transitions(static_arrows, STATIC_STRUCTURES) = Transitions
    /\ InNoPhysicsScene =>
         \A k \in 1..Len(scene) : StagePairs(k) \subseteq Transitions

(* the finished scene: a write ball crosses two links, a read ball two *)
C14_Witness ==
    /\ pc = "np_done"
    /\ StagePairs(1) = {<<"wcache", "write_rs">>, <<"write_rs", "dram">>}
    /\ StagePairs(7) = {<<"read_rs", "dram">>, <<"dram", "read_return">>}

(* C15 - Settle restores the resting pose: for every waypoint but the      *)
(* first animate_transaction keys squash, stretch and settle in this order *)
(* on increasing frames, the settle keyframes are the waypoint's position  *)
(* and the scale (1,1,1), and the timeline ends on the last waypoint's     *)
(* position with the scale (1,1,1).                                        *)
Bounce(k, n) ==
    SelectSeq(KeysOfStop(k, n),
              LAMBDA x : x.phase \in {"squash", "stretch", "settle"})

C15_SettleRestoresTheRestingPose ==
    \A k \in Objects({"animate_transaction"}) :
        /\ \A n \in 2..Len(args.waypoints) :
             LET b == Bounce(k, n)
             IN /\ PhasesOf(b) = <<"squash", "squash", "stretch", "stretch",
                                   "settle", "settle">>
                /\ b[1].frame < b[3].frame /\ b[3].frame < b[5].frame
                /\ b[5].data_path = "location"
                /\ b[5].value = args.waypoints[n]
                /\ b[6].data_path = "scale"
                /\ b[6].value = <<100, 100, 100>>
                /\ b[6].frame = b[5].frame
        /\ EndValue(KeysOf(k, "location")) = args.waypoints[Len(args.waypoints)]
        /\ EndValue(KeysOf(k, "scale")) = <<100, 100, 100>>
        /\ MaxFrame(KeysOf(k, "location")) = MaxFrame(scene[k].obj.keys)
        /\ MaxFrame(KeysOf(k, "scale")) = MaxFrame(scene[k].obj.keys)

(* a timeline over two different waypoints that ends on a settle keyframe *)
C15_Witness ==
    /\ pc = "lib"
    /\ Len(args.waypoints) = 2
    /\ args.waypoints[1] # args.waypoints[2]
    /\ \E k \in Objects({"animate_transaction"}) :
         scene[k].obj.keys[Len(scene[k].obj.keys)].phase = "settle"

(* the keyframes an F-curve keeps: a keyframe inserted on a frame that is  *)
(* already keyed replaces the older one                                    *)
Kept(keys) ==
    LET kept == {a \in 1..Len(keys) :
                   \A b \in (a + 1)..Len(keys) : keys[b].frame # keys[a].frame}
        Pick[a \in 0..Len(keys)] ==
          IF a = 0 THEN <<>>
          ELSE IF a \in kept THEN Append(Pick[a - 1], keys[a]) ELSE Pick[a - 1]
    IN Pick[Len(keys)]

(* the control-mode keyframes of stage visit n on the kinematic F-curve *)
Handoff(k, n) ==
    SelectSeq(Kept(KeysOf(k, "kinematic")), LAMBDA x : x.stop = n)

(* C16 - Hand-off state machine order: on the kinematic F-curve of a       *)
(* create_hybrid_transaction entity every stage visit has exactly three    *)
(* keyframes, True (arrival), False (cede), True (depart), on increasing   *)
(* frames, and the arrival of the next visit is on a later frame than the  *)
(* depart of this one.                                                     *)
C16_HandoffOrder ==
    \A k \in Objects({"create_hybrid_transaction"}) :
        \A n \in 1..Len(args.waypoints) :
            LET h == Handoff(k, n)
            IN /\ Len(h) = 3
               /\ h[1].value = TRUE /\ h[2].value = FALSE /\ h[3].value = TRUE
               /\ h[1].frame < h[2].frame /\ h[2].frame < h[3].frame
               /\ n < Len(args.waypoints) =>
                    /\ Handoff(k, n + 1) # <<>>
                    /\ h[3].frame < Handoff(k, n + 1)[1].frame

(* the cede and the resume keyframe of stage visit n, as inserted *)
CedeOf(k, n) ==
    SelectSeq(KeysOfStop(k, n),
              LAMBDA x : x.data_path = "kinematic" /\ x.value = FALSE)[1]

ResumeOf(k, n) ==
    SelectSeq(KeysOfStop(k, n),
              LAMBDA x : x.data_path = "kinematic" /\ x.phase = "resume")[1]

(* C17 - No pose is authored while control is ceded: for every stage visit *)
(* of a create_hybrid_transaction timeline whose resume keyframe is later  *)
(* than its cede keyframe, no location or scale keyframe of the timeline   *)
(* is on a frame strictly between the two.                                 *)
C17_NoPoseWhileCeded ==
    \A k \in Objects({"create_hybrid_transaction"}) :
        \A n \in 1..Len(args.waypoints) :
            CedeOf(k, n).frame < ResumeOf(k, n).frame =>
              \A a \in 1..Len(scene[k].obj.keys) :
                  LET x == scene[k].obj.keys[a]
                  IN x.data_path \in {"location", "scale"} =>
                       ~(CedeOf(k, n).frame < x.frame
                         /\ x.frame < ResumeOf(k, n).frame)

(* a visit that is simulated for 20 frames *)
C17_Witness ==
    \E k \in Objects({"create_hybrid_transaction"}) :
        \E n \in 1..Len(args.waypoints) :
            ResumeOf(k, n).frame = CedeOf(k, n).frame + 20

(* C18 - Embellishment is disabled under physics: no keyframe inserted by  *)
(* create_hybrid_transaction is a scale keyframe.                          *)
C18_HybridNeverKeysScale ==
    \A k \in Objects({"create_hybrid_transaction"}) :
        \A a \in 1..Len(scene[k].obj.keys) :
            scene[k].obj.keys[a].data_path # "scale"

(* a hybrid timeline that picks the ball up at one stage and exits at the  *)
(* next                                                                    *)
C18_Witness ==
    \E k \in Objects({"create_hybrid_transaction"}) :
        {"arrive", "cede", "resume", "rise", "arc", "exit"}
          \subseteq {scene[k].obj.keys[a].phase : a \in 1..Len(scene[k].obj.keys)}

(* C19 - Embellishment window equals the configured bounce length: for     *)
(* every waypoint but the first the settle keyframe of animate_transaction *)
(* is exactly 8 frames after the squash keyframe, 40% of the 8 frames      *)
(* lying before the stretch keyframe and 60% after it.                     *)
C19_BounceSpansBounceFrames ==
    \A k \in Objects({"animate_transaction"}) :
        \A n \in 2..Len(args.waypoints) :
            LET b == Bounce(k, n)
            IN /\ b[5].frame - b[1].frame = 8
               /\ 10 * (b[3].frame - b[1].frame) = 4 * 8
               /\ 10 * (b[5].frame - b[3].frame) = 6 * 8

(* the keyframes that begin and that end the dwell at waypoint n *)
DwellBegin(k, n) ==
    SelectSeq(KeysOfStop(k, n), LAMBDA x : x.phase \in {"first", "settle"})

DwellEnd(k, n) == SelectSeq(KeysOfStop(k, n), LAMBDA x : x.phase = "hold")

(* wait_times[i], 0 where the list the caller passed has no entry *)
DwellAt(n) == IF n <= Len(DwellList) THEN DwellList[n] ELSE 0

(* C20 - Scripted dwell is a static hold: where the dwell at a waypoint is *)
(* positive, animate_transaction keys a location and a scale at exactly    *)
(* that many frames after the settle (or first) keyframes, with the same   *)
(* values, the waypoint and the scale (1,1,1); where the dwell is 0 it     *)
(* keys no hold.                                                           *)
C20_ScriptedDwellIsAStaticHold ==
    \A k \in Objects({"animate_transaction"}) :
        \A n \in 1..Len(args.waypoints) :
            LET begin == DwellBegin(k, n)
                end == DwellEnd(k, n)
            IN IF DwellAt(n) > 0
               THEN /\ Len(begin) = 2 /\ Len(end) = 2
                    /\ \A c \in 1..2 :
                         /\ end[c].frame = begin[c].frame + DwellAt(n)
                         /\ end[c].data_path = begin[c].data_path
                         /\ end[c].value = begin[c].value
                    /\ end[1].data_path = "location"
                    /\ end[1].value = args.waypoints[n]
                    /\ end[2].data_path = "scale"
                    /\ end[2].value = <<100, 100, 100>>
               ELSE end = <<>>

(* a timeline that holds at one waypoint and does not at the other *)
C20_Witness ==
    /\ pc = "lib"
    /\ Len(args.waypoints) = 2
    /\ \E k \in Objects({"animate_transaction"}) :
         \E n, m \in 1..2 :
            /\ DwellAt(n) = 20 /\ Len(DwellEnd(k, n)) = 2
            /\ DwellAt(m) = 0 /\ DwellEnd(k, m) = <<>>

(* C21 - Balls wait inside units: every ball of the no-physics scene has,  *)
(* for every waypoint of its path but the last, two consecutive location   *)
(* keyframes at that waypoint.                                             *)
C21_BallsWaitInsideUnits ==
    InNoPhysicsScene =>
      \A k \in 1..Len(scene) :
          LET loc == KeysOf(k, "location")
          IN \A n \in 1..(Len(PathOf(k)) - 1) :
                 \E a \in 1..(Len(loc) - 1) :
                     /\ loc[a].value = PathOf(k)[n]
                     /\ loc[a + 1].value = PathOf(k)[n]
                     /\ loc[a].frame < loc[a + 1].frame

(* the dwell list cut to the length of the path *)
DwellsOnPath ==
    SubSeq(DwellList, 1,
           IF Len(DwellList) < Len(args.waypoints) THEN Len(DwellList)
           ELSE Len(args.waypoints))

(* C22 - Dwell lists never truncate a path: whatever the length of the     *)
(* dwell list, both emitters arrive at every waypoint in order; a stage    *)
(* beyond the end of the list gets no hold from animate_transaction and 50 *)
(* simulated frames from create_hybrid_transaction; the timeline is the    *)
(* one built from the list cut to the length of the path.                  *)
C22_DwellListsNeverTruncate ==
    /\ \A k \in Objects({"animate_transaction"}) :
         LET arr == Arrivals(k)
         IN /\ Len(arr) = Len(args.waypoints)
            /\ \A n \in 1..Len(arr) :
                 /\ arr[n].stop = n
                 /\ arr[n].value = args.waypoints[n]
                 /\ n > Len(DwellList) => DwellEnd(k, n) = <<>>
            /\ \A n \in 1..(Len(arr) - 1) : arr[n].frame < arr[n + 1].frame
            /\ args.times # None =>
                 scene[k].obj =
                   animate_transaction(
                     create_transaction_sphere("tx", args.waypoints[1]),
                     args.waypoints, args.start_frame, Some(DwellsOnPath))
    /\ \A k \in Objects({"create_hybrid_transaction"}) :
         LET arr == Arrivals(k)
         IN /\ Len(arr) = Len(args.waypoints)
            /\ \A n \in 1..Len(arr) :
                 /\ arr[n].stop = n
                 /\ AtEntryPoint(arr[n].value, args.waypoints[n])
                 /\ n > Len(DwellList) =>
                      ResumeOf(k, n).frame = CedeOf(k, n).frame + 50
            /\ \A n \in 1..(Len(arr) - 1) : arr[n].frame < arr[n + 1].frame
            /\ \E r \in 0..(RngMod - 1) :
                 scene[k].obj =
                   create_hybrid_transaction("tx", args.waypoints,
                                             args.start_frame, DwellsOnPath,
                                             r).sphere

(* both emitters called with a dwell list shorter than the path *)
C22_Witness ==
    /\ pc = "lib"
    /\ args.times # None
    /\ Len(DwellList) < Len(args.waypoints)
    /\ Objects({"animate_transaction"}) # {}
    /\ Objects({"create_hybrid_transaction"}) # {}

(* the arrival keyframe of stage visit n: kinematic = True at the entry *)
ArriveOf(k, n) ==
    SelectSeq(KeysOfStop(k, n),
              LAMBDA x : x.data_path = "kinematic" /\ x.phase = "arrive")[1]

(* C23 - Arrival is a one-frame step before the cede, as claimed: at every *)
(* stage visit of create_hybrid_transaction the kinematic = False keyframe *)
(* is exactly one frame after the arrival keyframe.                        *)
C23_CedeOneFrameAfterArrival ==
    \A k \in Objects({"create_hybrid_transaction"}) :
        \A n \in 1..Len(args.waypoints) :
            CedeOf(k, n).frame = ArriveOf(k, n).frame + 1

(* C23 amended - the kinematic = False keyframe of every stage visit is    *)
(* exactly two frames after the arrival keyframe.                          *)
C23_CedeTwoFramesAfterArrival ==
    \A k \in Objects({"create_hybrid_transaction"}) :
        \A n \in 1..Len(args.waypoints) :
            CedeOf(k, n).frame = ArriveOf(k, n).frame + 2

(* a hybrid timeline over two stages *)
C23_Witness ==
    /\ pc = "lib"
    /\ Len(args.waypoints) = 2
    /\ \E k \in Objects({"create_hybrid_transaction"}) :
         ArriveOf(k, 1).frame < ArriveOf(k, 2).frame

(* pairs of stages linked by one or more transitions in a row *)
Chain(T) ==
    T \cup {<<x[1][1], x[2][2]>> : x \in {y \in T \X T : y[1][2] = y[2][1]}}

Closure(T) == Chain(Chain(Chain(T)))

(* a stage no transition leaves *)
Terminal(ids, T) == {s \in ids : \A t \in T : t[1] # s}

WellFormed(ids, T) ==
    /\ \A t \in T : t[1] \in ids /\ t[2] \in ids
    /\ \A s \in ids : <<s, s>> \notin Closure(T)
    /\ \A s \in ids :
         \E e \in {"wcache", "read_rs"} : \E t \in Terminal(ids, T) :
            /\ e = s \/ <<e, s>> \in Closure(T)
            /\ s = t \/ <<s, t>> \in Closure(T)

(* C24 - Topology is well formed: each of the four programs has the same   *)
(* five distinct stage ids; every half-pipe and every arrow of the two 2D  *)
(* layouts starts and ends in one of these stages; in each variant the     *)
(* links form no cycle and every stage lies on a chain of links from       *)
(* WCache or Read RS to a stage that has no outgoing link.  The half-pipes *)
(* are looked at once create_channel_scene has built them.                 *)
C24_TopologyIsWellFormed ==
    /\ DOMAIN STRUCTURES = StageNames
    /\ DOMAIN NP_STRUCTURES = StageNames
    /\ DOMAIN VISUALIZER_STRUCTURES = StageNames
    /\ DOMAIN STATIC_STRUCTURES = StageNames
    /\ Cardinality(StageNames) = 5
    /\ pc \in {"writes", "reads", "built", "done"} =>
         WellFormed(DOMAIN STRUCTURES, half_pipe_transitions)
    /\ WellFormed(DOMAIN VISUALIZER_STRUCTURES,
                  arrow_transitions(visualizer_arrows, VISUALIZER_STRUCTURES))
    /\ WellFormed(DOMAIN STATIC_STRUCTURES,
                  arrow_transitions(static_arrows, STATIC_STRUCTURES))

(* create_channel_scene has built its four half-pipes, which lead from     *)
(* WCache and from Read RS to Read Return                                  *)
C24_Witness ==
    /\ pc = "built"
    /\ Cardinality(half_pipe_transitions) = 4
    /\ Terminal(StageNames, half_pipe_transitions) = {"read_return"}
    /\ <<"wcache", "read_return">> \in Closure(half_pipe_transitions)
    /\ <<"read_rs", "read_return">> \in Closure(half_pipe_transitions)

(* the squash and the stretch keyframes of the arrival at waypoint n:      *)
(* location first, scale second                                            *)
SquashOf(k, n) == SelectSeq(KeysOfStop(k, n), LAMBDA x : x.phase = "squash")
StretchOf(k, n) == SelectSeq(KeysOfStop(k, n), LAMBDA x : x.phase = "stretch")

(* C25 - Squash follows the direction of travel, as claimed: for every     *)
(* arrival of animate_transaction from a different waypoint, an axis on    *)
(* which the squash keyframe compresses the scale or moves the position    *)
(* off the waypoint is an axis along which the entity travelled from the   *)
(* previous waypoint.                                                      *)
C25_SquashAlongTheTravelAxis ==
    \A k \in Objects({"animate_transaction"}) :
        \A n \in 2..Len(args.waypoints) :
            LET pos == args.waypoints[n]
                from == args.waypoints[n - 1]
                squash == SquashOf(k, n)
            IN pos # from =>
                 \A d \in 1..3 :
                     (squash[2].value[d] < 100 \/ squash[1].value[d] # pos[d])
                       => pos[d] # from[d]

(* C25 amended - the squash is always vertical: for every arrival the      *)
(* squash keyframe compresses the scale on y only (widening x and z) and   *)
(* puts the position 0.15 below the waypoint on y only, and the stretch    *)
(* keyframe lengthens the scale on y only and puts the position 0.1 above  *)
(* the waypoint on y only, whatever the direction of the incoming travel.  *)
C25_SquashIsVertical ==
    \A k \in Objects({"animate_transaction"}) :
        \A n \in 2..Len(args.waypoints) :
            LET pos == args.waypoints[n]
                squash == SquashOf(k, n)
                stretch == StretchOf(k, n)
            IN /\ squash[1].value = <<pos[1], pos[2] - 15, pos[3]>>
               /\ stretch[1].value = <<pos[1], pos[2] + 10, pos[3]>>
               /\ squash[2].value[2] < 100 /\ stretch[2].value[2] > 100
               /\ \A d \in {1, 3} :
                    squash[2].value[d] > 100 /\ stretch[2].value[d] < 100

(* an arrival after a travel that is level: y is the same at both ends *)
C25_Witness ==
    /\ pc = "lib"
    /\ Len(args.waypoints) = 2
    /\ args.waypoints[1] # args.waypoints[2]
    /\ args.waypoints[1][2] = args.waypoints[2][2]
    /\ \E k \in Objects({"animate_transaction"}) : Len(SquashOf(k, 2)) = 2

(* the dwell of stage n of a physics timeline: physics_frames[i], or 50 *)
PhysicsDwell(n) == IF n <= Len(DwellList) THEN DwellList[n] ELSE 50

(* spawn_frame + sum over j < n of (d_j + 28) *)
ExpectedArrival(n) ==
    LET At[m \in 1..n] ==
          IF m = 1 THEN args.start_frame
          ELSE At[m - 1] + PhysicsDwell(m - 1) + 28
    IN At[n]

ExitOf(k) ==
    SelectSeq(scene[k].obj.keys, LAMBDA x : x.phase = "exit")

(* C26 - Arrival frames of the physics timeline: in a timeline built by    *)
(* create_hybrid_transaction the arrival keyframe of stage i is at         *)
(* spawn_frame plus, for every earlier stage j, d_j + 28; its resume       *)
(* keyframe is d_i + 2 frames after its arrival; the one exit keyframe is  *)
(* d + 17 frames after the arrival at the last stage.                      *)
C26_ArrivalFramesOfThePhysicsTimeline ==
    \A k \in Objects({"create_hybrid_transaction"}) :
        /\ \A n \in 1..Len(args.waypoints) :
             /\ ArriveOf(k, n).frame = ExpectedArrival(n)
             /\ ResumeOf(k, n).frame = ArriveOf(k, n).frame + PhysicsDwell(n) + 2
        /\ Len(ExitOf(k)) = 1
        /\ ExitOf(k)[1].stop = Len(args.waypoints)
        /\ ExitOf(k)[1].frame =
             ArriveOf(k, Len(args.waypoints)).frame
             + PhysicsDwell(Len(args.waypoints)) + 17

(* a timeline over two stages, the first with a dwell of 20 frames *)
C26_Witness ==
    /\ pc = "lib"
    /\ Len(args.waypoints) = 2
    /\ \E k \in Objects({"create_hybrid_transaction"}) :
         /\ PhysicsDwell(1) = 20
         /\ ArriveOf(k, 2).frame = args.start_frame + 48

(* the location keyframes of object k on frame f *)
LocationsOn(k, f) ==
    SelectSeq(KeysOf(k, "location"), LAMBDA x : x.frame = f)

(* C27 - Every scripted control sample carries a pose: every               *)
(* kinematic = True keyframe of a create_hybrid_transaction timeline has a *)
(* location keyframe on the same frame; the location keyed with the resume *)
(* is the stage position lowered by 1.0 on y at a stage that is not the    *)
(* last, and the stage position itself at the last stage.                  *)
C27_ScriptedControlCarriesAPose ==
    \A k \in Objects({"create_hybrid_transaction"}) :
        /\ \A a \in 1..Len(scene[k].obj.keys) :
             LET x == scene[k].obj.keys[a]
             IN (x.data_path = "kinematic" /\ x.value = TRUE) =>
                  LocationsOn(k, x.frame) # <<>>
        /\ \A n \in 1..Len(args.waypoints) :
             LET pos == args.waypoints[n]
                 placed == SelectSeq(KeysOfStop(k, n),
                                     LAMBDA x : /\ x.data_path = "location"
                                                /\ x.phase = "resume")
             IN /\ Len(placed) = 1
                /\ placed[1].frame = ResumeOf(k, n).frame
                /\ placed[1].value =
                     IF n < Len(args.waypoints)
                     THEN <<pos[1], pos[2] - 100, pos[3]>>
                     ELSE pos

(* a timeline that resumes at a stage that is not the last and at the last *)
C27_Witness ==
    /\ pc = "lib"
    /\ Len(args.waypoints) = 2
    /\ \E k \in Objects({"create_hybrid_transaction"}) :
         ResumeOf(k, 1).frame < ResumeOf(k, 2).frame

(* the frame an entity of create_channel_scene is spawned on: the frame it *)
(* is handed to the simulation                                             *)
SpawnFrameOf(k) ==
    SelectSeq(KeysOf(k, "kinematic"), LAMBDA x : x.phase = "visible")[1].frame

(* C28 - The rendered animation covers every entity: when the script has   *)
(* run create_channel_scene and then render_animation (background mode,    *)
(* "--render-anim" after "--"), the scene has 16 entities and the spawn    *)
(* frame of each lies within frame_start..frame_end.                       *)
C28_RenderedRangeCoversEverySpawn ==
    (pc = "done" /\ args.background /\ ~wants_render_frame /\ wants_render_anim)
      => /\ Len(scene) = 16
         /\ \A k \in 1..Len(scene) :
              /\ frames.frame_start <= SpawnFrameOf(k)
              /\ SpawnFrameOf(k) <= frames.frame_end

(* the last frame any entity of the scene is keyed on *)
LastKeyedFrame ==
    MaxFrame([k \in 1..Len(scene) |->
                [frame |-> MaxFrame(scene[k].obj.keys)]])

(* C29 - Timelines fit the scene's frame range: when create_scene of the   *)
(* no-physics script has finished, frame_end is 450, no keyframe is later  *)
(* and the last keyframe of the scene is the last one of the last read     *)
(* ball, at its final waypoint; when create_channel_scene has finished,    *)
(* frame_end is 500 and no keyframe is later than it or than the end of    *)
(* the physics cache, frame 600.                                           *)
C29_TimelinesFitTheFrameRange ==
    /\ pc = "np_done" =>
         /\ frames.frame_end = 450
         /\ LastKeyedFrame <= frames.frame_end
         /\ LET last == scene[Len(scene)].obj
            IN /\ last.name = "read_5"
               /\ last.keys[Len(last.keys)].frame = LastKeyedFrame
               /\ last.keys[Len(last.keys)].value = <<770, 50, 1200>>
    /\ pc = "built" =>
         /\ frames.frame_end = 500
         /\ LastKeyedFrame <= frames.frame_end
         /\ LastKeyedFrame <= point_cache_frame_end
         /\ point_cache_frame_end = 600

(* the finished no-physics scene, keyed up to frame 340 *)
C29_Witness ==
    /\ pc = "np_done"
    /\ Len(scene) = 12
    /\ LastKeyedFrame = 340

====
